---- MODULE Spec2Model ----
(***************************************************************************)
(* Model of packages/auth/scripts/setup_keycloak.py: the Keycloak          *)
(* bootstrap run (KeycloakSetup.run_setup_async and the stage functions it *)
(* calls), driven against an identity provider whose stored state is the   *)
(* variables realm, clients, roles, kcusers and mappings.  One action per  *)
(* HTTP call the script issues; the provider's answer to the call and the  *)
(* script's handling of that answer are one atomic step.                   *)
(***************************************************************************)
EXTENDS Integers, Sequences, FiniteSets, TLC

VARIABLES
    realm,      \* provider: the application realm exists
    clients,    \* provider: the realm's client representations, in list order
    roles,      \* provider: the realm's role representations, in creation order
    kcusers,    \* provider: the realm's users; a user's id is its index
    mappings,   \* provider: realm-level role mappings, pairs <<user id, role name>>
    dbMode,     \* the database: "down" (no engine), "error" (query raises), "up"
    dbRows,     \* the rows of the users table, ordered by id
    rs,         \* per runner: the state of its KeycloakSetup run
    runs,       \* number of runs started so far
    nfaults,    \* number of API failures injected so far
    edited,     \* an operator has edited the client by hand
    snap,       \* the provider's state when the first run ended
    email_unique, \* the users table has a unique constraint on email
    reqs        \* per request handler of the users API: its request's state

pvars == <<realm, clients, roles, kcusers, mappings>>
\* The database and the users API in front of it; the bootstrap run writes
\* none of them.
dbvars == <<dbMode, dbRows, email_unique, reqs>>
kcvars == <<realm, clients, roles, kcusers, mappings, rs, runs, nfaults,
            edited, snap>>
vars == <<realm, clients, roles, kcusers, mappings, dbMode, dbRows,
          rs, runs, nfaults, edited, snap, email_unique, reqs>>

(***************************************************************************)
(* Bounds of the model.                                                    *)
(***************************************************************************)
MaxRuns == 2
MaxFaults == 1
MaxRows == 2
MaxRequests == 1

Runners == {1, 2}

None == [none |-> TRUE]

(***************************************************************************)
(* Text helpers: str.split(sep) and str.strip() on strings.                *)
(***************************************************************************)
RECURSIVE split(_, _)
split(s, sep) ==
    LET idx == {i \in 1..Len(s) : SubSeq(s, i, i) = sep}
    IN  IF idx = {} THEN <<s>>
        ELSE LET i == CHOOSE j \in idx : \A k \in idx : j <= k
             IN  <<SubSeq(s, 1, i - 1)>> \o split(SubSeq(s, i + 1, Len(s)), sep)

RECURSIVE strip(_)
strip(s) ==
    IF Len(s) > 0 /\ SubSeq(s, 1, 1) = " "
    THEN strip(SubSeq(s, 2, Len(s)))
    ELSE IF Len(s) > 0 /\ SubSeq(s, Len(s), Len(s)) = " "
         THEN strip(SubSeq(s, 1, Len(s) - 1))
         ELSE s

StripAll(parts) == [i \in 1..Len(parts) |-> strip(parts[i])]

(***************************************************************************)
(* Configuration, KeycloakSetup.__init__.                                  *)
(***************************************************************************)
KEYCLOAK_REDIRECT_URIS == "http://localhost:3000/*, http://localhost:8080/*"
KEYCLOAK_WEB_ORIGINS == "http://localhost:3000"

app_realm == "spending-monitor"
client_id == "spending-monitor"
default_password == "password123"
\* redirect_uris without the strip of each part.
redirect_uris_unstripped == split(KEYCLOAK_REDIRECT_URIS, ",")

redirect_uris == StripAll(split(KEYCLOAK_REDIRECT_URIS, ","))
web_origins == StripAll(split(KEYCLOAK_WEB_ORIGINS, ","))

(***************************************************************************)
(* The desired client representation built in create_client.               *)
(***************************************************************************)
client_data ==
    [clientId |-> client_id,
     name |-> "Spending Monitor Frontend",
     description |-> "Frontend application for spending transaction monitoring",
     enabled |-> TRUE,
     publicClient |-> TRUE,
     standardFlowEnabled |-> TRUE,
     directAccessGrantsEnabled |-> TRUE,
     serviceAccountsEnabled |-> FALSE,
     implicitFlowEnabled |-> FALSE,
     redirectUris |-> redirect_uris,
     webOrigins |-> web_origins,
     attributes |-> ("pkce.code.challenge.method" :> "S256")]

\* Python's {**a, **b}: the keys of both, b's value where both have the key.
DictMerge(a, b) ==
    [k \in (DOMAIN a) \cup (DOMAIN b) |-> IF k \in DOMAIN b THEN b[k] ELSE a[k]]

\* update_data with the configured redirect URIs added to the existing ones.
update_data_append_uris(existing_client) ==
    DictMerge(existing_client,
              [client_data EXCEPT !.redirectUris =
                                    existing_client.redirectUris \o redirect_uris])

\* update_data without the merge: the desired fields alone.
update_data_overwrite(existing_client) == client_data

\* update_data = {**existing_client, **client_data}
update_data(existing_client) == DictMerge(existing_client, client_data)

\* The role names create_roles creates, in order.
role_names == <<"user", "admin">>

\* role_name.title()
title(role_name) == IF role_name = "user" THEN "User"
                    ELSE IF role_name = "admin" THEN "Admin" ELSE role_name

role_rep(role_name) ==
    [name |-> role_name,
     description |-> title(role_name) \o " role for spending-monitor"]

(***************************************************************************)
(* The user sources.                                                       *)
(***************************************************************************)
\* The emails a row of the users table may hold; "" is an absent email.
Emails == {"", "admin@y.com", "sysadmin@x.com"}

Rows == [email : Emails, is_active : BOOLEAN]

\* Tables of at most MaxRows rows; the row at position i has id i, and no two
\* rows share an email that is present.
Tables ==
    {t \in UNION {[1..n -> Rows] : n \in 0..MaxRows} :
        \A i, j \in DOMAIN t :
            (i # j /\ t[i].email # "") => t[i].email # t[j].email}

\* username = row.email.split('@')[0] if row.email else f"user{row.id}"
username_of(id, email) ==
    IF email # "" THEN split(email, "@")[1] ELSE "user" \o ToString(id)

\* One desired user per row of the query's result.
desired_of(id, email) ==
    [username |-> username_of(id, email),
     email |-> email,
     password |-> default_password,
     roles |-> <<"user">>]

\* SELECT ... FROM users WHERE is_active = true ORDER BY id, mapped row by row
RECURSIVE query_users(_, _)
query_users(rows, i) ==
    IF i > Len(rows) THEN <<>>
    ELSE (IF rows[i].is_active THEN <<desired_of(i, rows[i].email)>> ELSE <<>>)
         \o query_users(rows, i + 1)

\* get_users_from_database: [] without a database or when the query raises
get_users_from_database ==
    IF dbMode = "up" THEN query_users(dbRows, 1) ELSE <<>>

get_fallback_users ==
    <<[username |-> "testuser", email |-> "testuser@example.com",
       password |-> default_password, roles |-> <<"user">>],
      [username |-> "user1", email |-> "user1@example.com",
       password |-> default_password, roles |-> <<"user">>]>>

\* The fixed administrative identity of create_users_async.
admin_user ==
    [username |-> "admin", email |-> "admin@example.com",
     password |-> default_password, roles |-> <<"user", "admin">>]

\* select_users without the fallback.
select_users_no_fallback(users) == users

\* select_users with the static users added to the database's.
select_users_mixture(users) == users \o get_fallback_users

\* users = await self.get_users_from_database()
\* if not users: users = self.get_fallback_users()
select_users(users) == IF users = <<>> THEN get_fallback_users ELSE users

\* async with self.async_session() as session: the session is open in the
\* block and released when the block is left, by return or by an exception.
aexit_leak_on_error(raised) == raised

aexit(raised) == FALSE

(***************************************************************************)
(* The state of one run: the fields of KeycloakSetup the run writes, the   *)
(* locals of the stage functions that live across HTTP calls, and what the *)
(* run has done so far (log, ret, results).                                *)
(***************************************************************************)
IdleRun ==
    [pc |-> "idle",
     run |-> 0,                 \* which run this is (1 = the first)
     access_token |-> "",       \* self.access_token, "" for None
     existing_client |-> None,  \* create_client's existing_client
     role_i |-> 1,              \* create_roles' position in role_names
     users |-> <<>>,            \* create_users_async's users
     source |-> "none",         \* where users came from: "db" or "fallback"
     user_i |-> 1,              \* position in users; Len(users) + 1 is the admin
     success_count |-> 0,
     user_id |-> 0,             \* create_keycloak_user's user_id, 0 for None
     urole_i |-> 1,             \* position in the current user's roles
     role_data |-> None,
     success |-> FALSE,         \* what run_setup returned
     exit_code |-> -1,          \* what main returned, -1 while running
     log |-> <<>>,              \* the HTTP calls issued, in order
     ret |-> <<>>,              \* the stages that returned, with their result
     results |-> <<>>,          \* create_keycloak_user's result per user
     faults |-> 0,              \* API failures the run has seen
     session |-> FALSE,         \* a database session is open
     db_queries |-> 0,          \* queries executed on the database
     db_raised |-> FALSE,       \* the query raised
     db_users |-> <<>>,         \* what get_users_from_database returned
     interrupted |-> FALSE,     \* the run was ended by an exception in main
     start |-> None]            \* the provider's state when the run started

stage_order == <<"token", "realm", "client", "roles", "users", "probe">>

StageRank(stage) == CHOOSE i \in 1..Len(stage_order) : stage_order[i] = stage

\* The first step of each stage function.
entry_pc(stage) ==
    CASE stage = "token" -> "token"
      [] stage = "realm" -> "realm"
      [] stage = "client" -> "clients_get"
      [] stage = "roles" -> "role_post"
      [] stage = "users" -> "get_users"
      [] stage = "probe" -> "discovery"

\* The stage a call belongs to.
StageOf(call) ==
    CASE call = "token" -> "token"
      [] call = "realm_post" -> "realm"
      [] call \in {"clients_get", "client_post", "client_put"} -> "client"
      [] call = "role_post" -> "roles"
      [] call \in {"user_get", "user_post", "user_refetch", "role_get",
                   "mappings_get", "mappings_post"} -> "users"
      [] call = "discovery" -> "probe"

\* run_setup_async with a failed stage entered again instead of aborting.
run_setup_async_retry(stage, ok) ==
    IF ~ok THEN [pc |-> entry_pc(stage), success |-> FALSE]
    ELSE IF stage = "probe" THEN [pc |-> "return", success |-> TRUE]
    ELSE [pc |-> entry_pc(stage_order[StageRank(stage) + 1]), success |-> FALSE]

\* run_setup_async without the check of get_admin_token's result.
run_setup_async_token_unchecked(stage, ok) ==
    IF ~ok /\ stage # "token" THEN [pc |-> "return", success |-> FALSE]
    ELSE IF stage = "probe" THEN [pc |-> "return", success |-> TRUE]
    ELSE [pc |-> entry_pc(stage_order[StageRank(stage) + 1]), success |-> FALSE]

\* run_setup_async without the check of create_roles' result.
run_setup_async_roles_unchecked(stage, ok) ==
    IF ~ok /\ stage # "roles" THEN [pc |-> "return", success |-> FALSE]
    ELSE IF stage = "probe" THEN [pc |-> "return", success |-> TRUE]
    ELSE [pc |-> entry_pc(stage_order[StageRank(stage) + 1]), success |-> FALSE]

\* run_setup_async with test_oidc_config's result logged and not returned.
run_setup_async_probe_ignored(stage, ok) ==
    IF ~ok /\ stage # "probe" THEN [pc |-> "return", success |-> FALSE]
    ELSE IF stage = "probe" THEN [pc |-> "return", success |-> TRUE]
    ELSE [pc |-> entry_pc(stage_order[StageRank(stage) + 1]), success |-> FALSE]

\* run_setup_async: where the run goes after `stage` returned `ok`.
run_setup_async(stage, ok) ==
    IF ~ok THEN [pc |-> "return", success |-> FALSE]
    ELSE IF stage = "probe" THEN [pc |-> "return", success |-> TRUE]
    ELSE [pc |-> entry_pc(stage_order[StageRank(stage) + 1]), success |-> FALSE]

\* Return with the credential renewed once the client stage has succeeded.
Return_refresh(r, stage, ok) ==
    LET n == run_setup_async(stage, ok)
    IN  [r EXCEPT !.ret = Append(@, [stage |-> stage, ok |-> ok]),
                  !.pc = n.pc,
                  !.success = n.success,
                  !.access_token = IF stage = "client" /\ ok THEN @ \o "+" ELSE @]

\* The stage function returns `ok` to run_setup_async.
Return(r, stage, ok) ==
    LET n == run_setup_async(stage, ok)
    IN  [r EXCEPT !.ret = Append(@, [stage |-> stage, ok |-> ok]),
                  !.pc = n.pc,
                  !.success = n.success]

(***************************************************************************)
(* API failures.  A call's outcome is "ok" (the provider answers as its    *)
(* state dictates), "status" (it answers 500 and changes nothing) or       *)
(* "neterr" (requests raises: no answer, nothing changed).                 *)
(***************************************************************************)
Outcomes == IF nfaults < MaxFaults THEN {"ok", "status", "neterr"} ELSE {"ok"}

Status(o, answer) == IF o = "ok" THEN answer ELSE IF o = "status" THEN 500 ELSE 0

Count(o) == nfaults' = nfaults + (IF o = "ok" THEN 0 ELSE 1)

\* The run record after issuing a call: logged with the bearer header it carried.
WithCall(r, o, call, name, uid, status, auth) ==
    [r EXCEPT !.log = Append(@, [call |-> call, name |-> name, uid |-> uid,
                                 status |-> status, auth |-> auth]),
              !.faults = @ + (IF o = "ok" THEN 0 ELSE 1)]

(***************************************************************************)
(* The provider's state as one value, and the desired state.               *)
(***************************************************************************)
Provider ==
    [realm |-> realm, clients |-> clients, roles |-> roles,
     users |-> kcusers, mappings |-> mappings]

OurClients == {i \in 1..Len(clients) : clients[i].clientId = client_id}

\* RoleExists for a provider that never answers 409 to a role create.
RoleExists_never(role_name) == FALSE

RoleExists(role_name) == \E i \in 1..Len(roles) : roles[i].name = role_name

\* In provider state P the structural resources (realm, client, roles) are all
\* there, the client with the desired value in every field the script manages.
StructureMatches(P) ==
    /\ P.realm
    /\ \E i \in 1..Len(P.clients) :
          /\ P.clients[i].clientId = client_id
          /\ \A k \in DOMAIN client_data : P.clients[i][k] = client_data[k]
    /\ \A n \in 1..Len(role_names) :
          \E i \in 1..Len(P.roles) : P.roles[i].name = role_names[n]

(***************************************************************************)
(* main: a new KeycloakSetup and its run.  Runs of one runner follow each  *)
(* other.                                                                  *)
(***************************************************************************)
StartRun(p) ==
    /\ rs[p].pc \in {"idle", "done"}
    /\ runs < MaxRuns
    /\ runs' = runs + 1
    /\ rs' = [rs EXCEPT ![p] = [IdleRun EXCEPT !.pc = "token",
                                               !.run = runs + 1,
                                               !.start = Provider]]
    /\ UNCHANGED <<pvars, dbvars, nfaults, edited, snap>>

\* main: return 0 if success else 1
exit_code_of(success) == IF success THEN 0 ELSE 1

\* main returns; the process ends.
Main(p) ==
    /\ rs[p].pc = "return"
    /\ rs' = [rs EXCEPT ![p] = [@ EXCEPT !.pc = "done",
                                         !.exit_code = exit_code_of(rs[p].success)]]
    /\ snap' = IF rs[p].run = 1 THEN Provider ELSE snap
    /\ UNCHANGED <<pvars, dbvars, runs, nfaults, edited>>

(***************************************************************************)
(* get_admin_token                                                         *)
(***************************************************************************)
TokenPost(p) ==
    /\ rs[p].pc = "token"
    /\ \E o \in Outcomes :
        LET st == Status(o, 200)
            r1 == WithCall(rs[p], o, "token", "", 0, st, "")
            r2 == IF st = 200
                  THEN [r1 EXCEPT !.access_token = "tok" \o ToString(r1.run)]
                  ELSE r1
        IN  /\ rs' = [rs EXCEPT ![p] = Return(r2, "token", st = 200)]
            /\ Count(o)
    /\ UNCHANGED <<pvars, dbvars, runs, edited, snap>>

(***************************************************************************)
(* create_realm.  A new realm comes with the provider's built-in client.   *)
(***************************************************************************)
BuiltinClient == [id |-> 1, clientId |-> "account", protocol |-> "openid-connect"]

RealmPost(p) ==
    /\ rs[p].pc = "realm"
    /\ \E o \in Outcomes :
        LET st == Status(o, IF realm THEN 409 ELSE 201)
            r1 == WithCall(rs[p], o, "realm_post", app_realm, 0, st, rs[p].access_token)
        IN  /\ rs' = [rs EXCEPT ![p] = Return(r1, "realm", st \in {201, 409})]
            /\ realm' = (realm \/ st = 201)
            /\ clients' = IF st = 201 THEN <<BuiltinClient>> ELSE clients
            /\ Count(o)
    /\ UNCHANGED <<roles, kcusers, mappings, dbvars, runs, edited, snap>>

(***************************************************************************)
(* create_client                                                           *)
(***************************************************************************)
\* find_existing_client without the comparison: the first client listed.
find_existing_client_first(list) == IF list = <<>> THEN None ELSE list[1]

\* find_existing_client comparing a key no client holds: nothing matches.
find_existing_client_none(list) == None

\* for client in response.json(): if client.get("clientId") == self.client_id: break
find_existing_client(list) ==
    LET hits == {i \in 1..Len(list) : list[i].clientId = client_id}
    IN  IF hits = {} THEN None
        ELSE list[CHOOSE i \in hits : \A j \in hits : i <= j]

ClientsGet(p) ==
    /\ rs[p].pc = "clients_get"
    /\ \E o \in Outcomes :
        LET st == Status(o, IF realm THEN 200 ELSE 404)
            r1 == WithCall(rs[p], o, "clients_get", "", 0, st, rs[p].access_token)
        IN  /\ rs' = [rs EXCEPT ![p] =
                        IF st = 200
                        THEN [r1 EXCEPT !.existing_client = find_existing_client(clients),
                                        !.pc = "client_write"]
                        ELSE Return(r1, "client", FALSE)]
            /\ Count(o)
    /\ UNCHANGED <<pvars, dbvars, runs, edited, snap>>

\* What the provider stores for the client `old` when a PUT carries `body`:
\* the fields of body, with the attributes map either the one body carries or
\* the stored map with body's entries added, as the provider's version has it.
StoredOnPut(old, body) ==
    {body} \cup
    (IF "attributes" \in DOMAIN old /\ "attributes" \in DOMAIN body
     THEN {[body EXCEPT !.attributes = DictMerge(old.attributes, body.attributes)]}
     ELSE {})

\* The provider stores the representation a PUT carries in place of the old one.
ClientPut(p) ==
    /\ rs[p].pc = "client_write"
    /\ rs[p].existing_client # None
    /\ \E o \in Outcomes :
        LET client_uuid == rs[p].existing_client.id
            body == update_data(rs[p].existing_client)
            hits == {i \in 1..Len(clients) : clients[i].id = client_uuid}
            st == Status(o, IF hits # {} THEN 204 ELSE 404)
            r1 == WithCall(rs[p], o, "client_put", client_id, client_uuid, st,
                           rs[p].access_token)
        IN  /\ rs' = [rs EXCEPT ![p] = Return(r1, "client", st = 204)]
            /\ IF st = 204
               THEN \E f \in [hits -> UNION {StoredOnPut(clients[i], body) : i \in hits}] :
                       /\ \A i \in hits : f[i] \in StoredOnPut(clients[i], body)
                       /\ clients' = [i \in 1..Len(clients) |->
                                         IF i \in hits THEN f[i] ELSE clients[i]]
               ELSE clients' = clients
            /\ Count(o)
    /\ UNCHANGED <<realm, roles, kcusers, mappings, dbvars, runs, edited, snap>>

\* The provider gives a created client an id and its protocol default.
ClientPost(p) ==
    /\ rs[p].pc = "client_write"
    /\ rs[p].existing_client = None
    /\ \E o \in Outcomes :
        LET st == Status(o, IF OurClients # {} THEN 409 ELSE 201)
            stored == DictMerge([id |-> Len(clients) + 1, protocol |-> "openid-connect"],
                                client_data)
            r1 == WithCall(rs[p], o, "client_post", client_id, 0, st, rs[p].access_token)
        IN  /\ rs' = [rs EXCEPT ![p] = Return(r1, "client", st = 201)]
            /\ clients' = IF st = 201 THEN Append(clients, stored) ELSE clients
            /\ Count(o)
    /\ UNCHANGED <<realm, roles, kcusers, mappings, dbvars, runs, edited, snap>>

(***************************************************************************)
(* create_roles                                                            *)
(***************************************************************************)
\* RolePost with a failed create skipped: the loop goes on with the next name.
RolePost_continue(p) ==
    /\ rs[p].pc = "role_post"
    /\ \E o \in Outcomes :
        LET role_name == role_names[rs[p].role_i]
            st == Status(o, IF ~realm THEN 404
                            ELSE IF RoleExists(role_name) THEN 409 ELSE 201)
            r1 == WithCall(rs[p], o, "role_post", role_name, 0, st, rs[p].access_token)
        IN  /\ rs' = [rs EXCEPT ![p] =
                        IF rs[p].role_i < Len(role_names)
                        THEN [r1 EXCEPT !.role_i = @ + 1]
                        ELSE Return(r1, "roles", st \in {201, 409})]
            /\ roles' = IF st = 201 THEN Append(roles, role_rep(role_name)) ELSE roles
            /\ Count(o)
    /\ UNCHANGED <<realm, clients, kcusers, mappings, dbvars, runs, edited, snap>>

\* RolePost with a failed create of a role issued again.
RolePost_retry(p) ==
    /\ rs[p].pc = "role_post"
    /\ \E o \in Outcomes :
        LET role_name == role_names[rs[p].role_i]
            st == Status(o, IF ~realm THEN 404
                            ELSE IF RoleExists(role_name) THEN 409 ELSE 201)
            r1 == WithCall(rs[p], o, "role_post", role_name, 0, st, rs[p].access_token)
        IN  /\ rs' = [rs EXCEPT ![p] =
                        IF st \in {201, 409}
                        THEN IF rs[p].role_i < Len(role_names)
                             THEN [r1 EXCEPT !.role_i = @ + 1]
                             ELSE Return(r1, "roles", TRUE)
                        ELSE r1]
            /\ roles' = IF st = 201 THEN Append(roles, role_rep(role_name)) ELSE roles
            /\ Count(o)
    /\ UNCHANGED <<realm, clients, kcusers, mappings, dbvars, runs, edited, snap>>

\* RolePost with compensation: a failed create deletes the roles the run made.
RolePost_rollback(p) ==
    /\ rs[p].pc = "role_post"
    /\ \E o \in Outcomes :
        LET role_name == role_names[rs[p].role_i]
            st == Status(o, IF ~realm THEN 404
                            ELSE IF RoleExists(role_name) THEN 409 ELSE 201)
            r1 == WithCall(rs[p], o, "role_post", role_name, 0, st, rs[p].access_token)
        IN  /\ rs' = [rs EXCEPT ![p] =
                        IF st \in {201, 409}
                        THEN IF rs[p].role_i < Len(role_names)
                             THEN [r1 EXCEPT !.role_i = @ + 1]
                             ELSE Return(r1, "roles", TRUE)
                        ELSE Return(r1, "roles", FALSE)]
            /\ roles' = IF st = 201 THEN Append(roles, role_rep(role_name))
                        ELSE IF st = 409 THEN roles
                        ELSE rs[p].start.roles
            /\ Count(o)
    /\ UNCHANGED <<realm, clients, kcusers, mappings, dbvars, runs, edited, snap>>

RolePost(p) ==
    /\ rs[p].pc = "role_post"
    /\ \E o \in Outcomes :
        LET role_name == role_names[rs[p].role_i]
            st == Status(o, IF ~realm THEN 404
                            ELSE IF RoleExists(role_name) THEN 409 ELSE 201)
            r1 == WithCall(rs[p], o, "role_post", role_name, 0, st, rs[p].access_token)
        IN  /\ rs' = [rs EXCEPT ![p] =
                        IF st \in {201, 409}
                        THEN IF rs[p].role_i < Len(role_names)
                             THEN [r1 EXCEPT !.role_i = @ + 1]
                             ELSE Return(r1, "roles", TRUE)
                        ELSE Return(r1, "roles", FALSE)]
            /\ roles' = IF st = 201 THEN Append(roles, role_rep(role_name)) ELSE roles
            /\ Count(o)
    /\ UNCHANGED <<realm, clients, kcusers, mappings, dbvars, runs, edited, snap>>

(***************************************************************************)
(* create_users_async and create_keycloak_user                             *)
(***************************************************************************)
\* get_users_from_database is entered: without a database it returns [] at
\* once, with one it opens a session.
GetUsers(p) ==
    /\ rs[p].pc = "get_users"
    /\ rs' = [rs EXCEPT ![p] =
                IF dbMode = "down"
                THEN [@ EXCEPT !.db_users = <<>>, !.pc = "select_users"]
                ELSE [@ EXCEPT !.session = TRUE, !.pc = "db_query"]]
    /\ UNCHANGED <<pvars, dbvars, runs, nfaults, edited, snap>>

\* session.execute(query) and the loop over the rows, or the exception.
DbQuery(p) ==
    /\ rs[p].pc = "db_query"
    /\ rs' = [rs EXCEPT ![p] =
                [@ EXCEPT !.db_queries = @ + 1,
                          !.db_raised = (dbMode = "error"),
                          !.db_users = get_users_from_database,
                          !.pc = "db_release"]]
    /\ UNCHANGED <<pvars, dbvars, runs, nfaults, edited, snap>>

\* The async with block is left and get_users_from_database returns.
DbRelease(p) ==
    /\ rs[p].pc = "db_release"
    /\ rs' = [rs EXCEPT ![p] =
                [@ EXCEPT !.session = aexit(rs[p].db_raised),
                          !.pc = "select_users"]]
    /\ UNCHANGED <<pvars, dbvars, runs, nfaults, edited, snap>>

\* create_users_async chooses the list it works on.
SelectUsers(p) ==
    /\ rs[p].pc = "select_users"
    /\ rs' = [rs EXCEPT ![p] =
                [@ EXCEPT !.users = select_users(rs[p].db_users),
                          !.source = IF rs[p].db_users = <<>>
                                     THEN "fallback" ELSE "db",
                          !.user_i = 1,
                          !.success_count = 0,
                          !.pc = "user_get"]]
    /\ UNCHANGED <<pvars, dbvars, runs, nfaults, edited, snap>>

\* The user create_keycloak_user is working on: the desired users, then the admin.
CurrentUser(r) ==
    IF r.user_i <= Len(r.users) THEN r.users[r.user_i] ELSE admin_user

\* UserDone with the admin ensured only when some desired user succeeded.
UserDone_admin_if_any(r, result) ==
    LET r1 == [r EXCEPT !.results = Append(@, [username |-> CurrentUser(r).username,
                                                 ok |-> result]),
                        !.success_count =
                            IF result /\ r.user_i <= Len(r.users) THEN @ + 1 ELSE @,
                        !.user_id = 0,
                        !.urole_i = 1,
                        !.role_data = None]
    IN  IF r.user_i < Len(r.users)
           \/ (r.user_i = Len(r.users) /\ r1.success_count > 0)
        THEN [r1 EXCEPT !.user_i = @ + 1, !.pc = "user_get"]
        ELSE Return(r1, "users", TRUE)

\* UserDone with a failed user ending the batch: the stage returns False.
UserDone_abort_on_failure(r, result) ==
    LET r1 == [r EXCEPT !.results = Append(@, [username |-> CurrentUser(r).username,
                                                 ok |-> result]),
                        !.success_count =
                            IF result /\ r.user_i <= Len(r.users) THEN @ + 1 ELSE @,
                        !.user_id = 0,
                        !.urole_i = 1,
                        !.role_data = None]
    IN  IF ~result THEN Return(r1, "users", FALSE)
        ELSE IF r.user_i <= Len(r.users)
        THEN [r1 EXCEPT !.user_i = @ + 1, !.pc = "user_get"]
        ELSE Return(r1, "users", TRUE)

\* create_keycloak_user returns `result`; create_users_async goes on with the
\* next user, and returns True after the admin.
UserDone(r, result) ==
    LET r1 == [r EXCEPT !.results = Append(@, [username |-> CurrentUser(r).username,
                                                 ok |-> result]),
                        !.success_count =
                            IF result /\ r.user_i <= Len(r.users) THEN @ + 1 ELSE @,
                        !.user_id = 0,
                        !.urole_i = 1,
                        !.role_data = None]
    IN  IF r.user_i <= Len(r.users)
        THEN [r1 EXCEPT !.user_i = @ + 1, !.pc = "user_get"]
        ELSE Return(r1, "users", TRUE)

\* if user_id: for role_name in roles: ...
BeginRoles(r, uid) ==
    IF uid # 0
    THEN [r EXCEPT !.user_id = uid, !.urole_i = 1, !.pc = "role_get"]
    ELSE UserDone(r, TRUE)

\* The end of one pass of the role loop.
NextRole(r) ==
    IF r.urole_i < Len(CurrentUser(r).roles)
    THEN [r EXCEPT !.urole_i = @ + 1, !.role_data = None, !.pc = "role_get"]
    ELSE UserDone(r, TRUE)

\* q occurs in s.
Contains(s, q) ==
    \E i \in 1..(Len(s) - Len(q) + 1) : SubSeq(s, i, i + Len(q) - 1) = q

\* GET users?username=q: the provider lists the users whose username contains q.
FilteredUsers(q) == {i \in 1..Len(kcusers) : Contains(kcusers[i].username, q)}

\* response.json()[0]["id"], 0 when there is no list or it is empty.  The
\* provider lists the users in a fixed order, the order it stores them in.
first_id(st, q) ==
    IF st = 200 /\ FilteredUsers(q) # {}
    THEN CHOOSE i \in FilteredUsers(q) : \A j \in FilteredUsers(q) : i <= j
    ELSE 0

UserGet(p) ==
    /\ rs[p].pc = "user_get"
    /\ \E o \in Outcomes :
        LET u == CurrentUser(rs[p])
            st == Status(o, IF realm THEN 200 ELSE 404)
            uid == first_id(st, u.username)
            r1 == WithCall(rs[p], o, "user_get", u.username, uid, st,
                           rs[p].access_token)
        IN  /\ rs' = [rs EXCEPT ![p] =
                        IF o = "neterr" THEN UserDone(r1, FALSE)
                        ELSE IF uid # 0 THEN BeginRoles(r1, uid)
                        ELSE [r1 EXCEPT !.pc = "user_post"]]
            /\ Count(o)
    /\ UNCHANGED <<pvars, dbvars, runs, edited, snap>>

\* The provider refuses a username or an email that a user of the realm has.
UserConflict(u) ==
    \E i \in 1..Len(kcusers) :
        \/ kcusers[i].username = u.username
        \/ u.email # "" /\ kcusers[i].email = u.email

\* UserPost with a refused create treated like a created user without an id:
\* the user is counted as a success.
UserPost_no_skip(p) ==
    /\ rs[p].pc = "user_post"
    /\ \E o \in Outcomes :
        LET u == CurrentUser(rs[p])
            st == Status(o, IF ~realm THEN 404
                            ELSE IF UserConflict(u) THEN 409 ELSE 201)
            uid == IF st = 201 THEN Len(kcusers) + 1 ELSE 0
            r1 == WithCall(rs[p], o, "user_post", u.username, uid, st,
                           rs[p].access_token)
        IN  /\ rs' = [rs EXCEPT ![p] =
                        IF st = 201 THEN BeginRoles(r1, uid)
                        ELSE IF st = 409 THEN [r1 EXCEPT !.pc = "user_refetch"]
                        ELSE UserDone(r1, TRUE)]
            /\ kcusers' = IF st = 201
                          THEN Append(kcusers, [username |-> u.username,
                                                email |-> u.email,
                                                enabled |-> TRUE,
                                                emailVerified |-> TRUE,
                                                password |-> u.password])
                          ELSE kcusers
            /\ Count(o)
    /\ UNCHANGED <<realm, clients, roles, mappings, dbvars, runs, edited, snap>>

UserPost(p) ==
    /\ rs[p].pc = "user_post"
    /\ \E o \in Outcomes :
        LET u == CurrentUser(rs[p])
            st == Status(o, IF ~realm THEN 404
                            ELSE IF UserConflict(u) THEN 409 ELSE 201)
            uid == IF st = 201 THEN Len(kcusers) + 1 ELSE 0
            r1 == WithCall(rs[p], o, "user_post", u.username, uid, st,
                           rs[p].access_token)
        IN  /\ rs' = [rs EXCEPT ![p] =
                        IF st = 201 THEN BeginRoles(r1, uid)
                        ELSE IF st = 409 THEN [r1 EXCEPT !.pc = "user_refetch"]
                        ELSE UserDone(r1, FALSE)]
            /\ kcusers' = IF st = 201
                          THEN Append(kcusers, [username |-> u.username,
                                                email |-> u.email,
                                                enabled |-> TRUE,
                                                emailVerified |-> TRUE,
                                                password |-> u.password])
                          ELSE kcusers
            /\ Count(o)
    /\ UNCHANGED <<realm, clients, roles, mappings, dbvars, runs, edited, snap>>

UserRefetch(p) ==
    /\ rs[p].pc = "user_refetch"
    /\ \E o \in Outcomes :
        LET u == CurrentUser(rs[p])
            st == Status(o, IF realm THEN 200 ELSE 404)
            uid == first_id(st, u.username)
            r1 == WithCall(rs[p], o, "user_refetch", u.username, uid, st,
                           rs[p].access_token)
        IN  /\ rs' = [rs EXCEPT ![p] =
                        IF uid # 0 THEN BeginRoles(r1, uid)
                        ELSE UserDone(r1, FALSE)]
            /\ Count(o)
    /\ UNCHANGED <<pvars, dbvars, runs, edited, snap>>

RoleGet(p) ==
    /\ rs[p].pc = "role_get"
    /\ \E o \in Outcomes :
        LET role_name == CurrentUser(rs[p]).roles[rs[p].urole_i]
            st == Status(o, IF realm /\ RoleExists(role_name) THEN 200 ELSE 404)
            r1 == WithCall(rs[p], o, "role_get", role_name, rs[p].user_id, st,
                           rs[p].access_token)
        IN  /\ rs' = [rs EXCEPT ![p] =
                        IF o = "neterr" THEN UserDone(r1, FALSE)
                        ELSE IF st = 200
                        THEN [r1 EXCEPT !.role_data =
                                  roles[CHOOSE i \in 1..Len(roles) : roles[i].name = role_name],
                                        !.pc = "mappings_get"]
                        ELSE NextRole(r1)]
            /\ Count(o)
    /\ UNCHANGED <<pvars, dbvars, runs, edited, snap>>

\* has_role = False; if status == 200: has_role = any(r["name"] == role_name ...)
has_role(st, uid, role_name) == st = 200 /\ <<uid, role_name>> \in mappings

MappingsGet(p) ==
    /\ rs[p].pc = "mappings_get"
    /\ \E o \in Outcomes :
        LET role_name == CurrentUser(rs[p]).roles[rs[p].urole_i]
            uid == rs[p].user_id
            st == Status(o, IF realm /\ uid \in 1..Len(kcusers) THEN 200 ELSE 404)
            r1 == WithCall(rs[p], o, "mappings_get", role_name, uid, st,
                           rs[p].access_token)
        IN  /\ rs' = [rs EXCEPT ![p] =
                        IF o = "neterr" THEN UserDone(r1, FALSE)
                        ELSE IF has_role(st, uid, role_name) THEN NextRole(r1)
                        ELSE [r1 EXCEPT !.pc = "mappings_post"]]
            /\ Count(o)
    /\ UNCHANGED <<pvars, dbvars, runs, edited, snap>>

\* The answer to the assignment is not looked at.
MappingsPost(p) ==
    /\ rs[p].pc = "mappings_post"
    /\ \E o \in Outcomes :
        LET uid == rs[p].user_id
            role_name == rs[p].role_data.name
            st == Status(o, IF realm /\ uid \in 1..Len(kcusers) THEN 204 ELSE 404)
            r1 == WithCall(rs[p], o, "mappings_post", role_name, uid, st,
                           rs[p].access_token)
        IN  /\ rs' = [rs EXCEPT ![p] =
                        IF o = "neterr" THEN UserDone(r1, FALSE) ELSE NextRole(r1)]
            /\ mappings' = IF st = 204 THEN mappings \cup {<<uid, role_name>>}
                           ELSE mappings
            /\ Count(o)
    /\ UNCHANGED <<realm, clients, roles, kcusers, dbvars, runs, edited, snap>>

(***************************************************************************)
(* test_oidc_config                                                        *)
(***************************************************************************)
Discovery(p) ==
    /\ rs[p].pc = "discovery"
    /\ \E o \in Outcomes :
        LET st == Status(o, IF realm THEN 200 ELSE 404)
            r1 == WithCall(rs[p], o, "discovery", app_realm, 0, st, "")
        IN  /\ rs' = [rs EXCEPT ![p] = Return(r1, "probe", st = 200)]
            /\ Count(o)
    /\ UNCHANGED <<pvars, dbvars, runs, edited, snap>>

(***************************************************************************)
(* Between runs an operator may edit the client in the provider's console: *)
(* a field and an attribute the script does not manage are set, and the    *)
(* redirect URIs are changed.                                              *)
(***************************************************************************)
OperatorEdit ==
    /\ ~edited
    /\ \A p \in Runners : rs[p].pc \in {"idle", "done"}
    /\ OurClients # {}
    /\ clients' = [i \in 1..Len(clients) |->
                    IF i \in OurClients
                    THEN DictMerge(clients[i],
                            [baseUrl |-> "http://localhost:3000",
                             redirectUris |-> <<"http://old.example/*">>,
                             attributes |-> DictMerge(clients[i].attributes,
                                              ("post.logout.redirect.uris" :> "+"))])
                    ELSE clients[i]]
    /\ edited' = TRUE
    /\ UNCHANGED <<realm, roles, kcusers, mappings, dbvars, rs, runs, nfaults, snap>>

(***************************************************************************)
(* The users API, packages/api/src/routes/users.py: create_user and        *)
(* update_user against the users table.  A handler runs on its own session *)
(* and gives way to other requests at every await: one action per database *)
(* round trip.  The table's schema (db.models.User) is outside this source: *)
(* whether its email column carries a unique constraint is left open by     *)
(* email_unique.  A user's id is the position of its row.                   *)
(***************************************************************************)
Handlers == {1, 2}

IdleReq ==
    [pc |-> "idle",
     served |-> 0,          \* requests this handler has answered
     op |-> "none",         \* "create" or "update"
     payload |-> <<>>,      \* the fields the request body sets (not None)
     user_id |-> 0,         \* update_user's path parameter
     user |-> <<>>,         \* update_user's loaded User object
     status |-> 0,          \* the response's status code
     conflict |-> FALSE,    \* the request's email was another user's when it was answered
     wrote |-> FALSE]       \* the request changed the table

\* UserCreate: email is required.
UserCreate == {("email" :> e) : e \in Emails}

\* UserUpdate: every field is optional; a field left out or None is not set.
UserUpdate ==
    {e @@ a : e \in {<<>>} \cup {("email" :> x) : x \in Emails},
              a \in {<<>>} \cup {("is_active" :> b) : b \in BOOLEAN}}

\* select(User).where(User.email == email): the ids of the rows found.
by_email(email) == {i \in DOMAIN dbRows : dbRows[i].email = email}

\* existing.scalar_one_or_none() and the handler's answer to it: 500 when
\* several rows are found (MultipleResultsFound is an SQLAlchemyError), 400
\* when one is, 0 (the handler goes on) when none is.
existing_status(email) ==
    IF Cardinality(by_email(email)) > 1 THEN 500
    ELSE IF by_email(email) # {} THEN 400
    ELSE 0

Answer(q, status, conflict, wrote) ==
    [reqs[q] EXCEPT !.pc = "idle", !.served = @ + 1, !.status = status,
                    !.conflict = conflict, !.wrote = wrote]

\* create_user up to its commit: the request arrives and the handler looks
\* for a user with the payload's email.
CreateSelect(q) ==
    /\ reqs[q].pc = "idle"
    /\ reqs[q].served < MaxRequests
    /\ \E payload \in UserCreate :
        LET st == existing_status(payload.email)
            r == [reqs[q] EXCEPT !.op = "create", !.payload = payload,
                                 !.user_id = 0, !.user = <<>>, !.status = 0,
                                 !.conflict = FALSE, !.wrote = FALSE]
        IN  reqs' = [reqs EXCEPT ![q] =
                IF st # 0
                THEN [r EXCEPT !.pc = "idle", !.served = @ + 1,
                               !.status = st, !.conflict = TRUE]
                ELSE [r EXCEPT !.pc = "create_commit"]]
    /\ UNCHANGED <<kcvars, dbMode, dbRows, email_unique>>

\* session.add(user); await session.commit(): the row is inserted, or the
\* unique constraint refuses it and the handler answers 500.
CreateCommit(q) ==
    /\ reqs[q].pc = "create_commit"
    /\ LET email == reqs[q].payload.email
           dup == by_email(email) # {}
       IN  IF email_unique /\ dup
           THEN /\ reqs' = [reqs EXCEPT ![q] = Answer(q, 500, TRUE, FALSE)]
                /\ UNCHANGED dbRows
           ELSE /\ \E a \in BOOLEAN :
                    dbRows' = Append(dbRows, [email |-> email, is_active |-> a])
                /\ reqs' = [reqs EXCEPT ![q] = Answer(q, 200, dup, TRUE)]
    /\ UNCHANGED <<kcvars, dbMode, email_unique>>

\* if payload.email and payload.email != user.email
checks_email(payload, user) ==
    /\ "email" \in DOMAIN payload
    /\ payload.email # ""
    /\ payload.email # user.email

\* update_user's first query: the user is loaded by id, 404 when there is
\* none.  When the email is not being changed no second query is made.
UpdateSelect(q) ==
    /\ reqs[q].pc = "idle"
    /\ reqs[q].served < MaxRequests
    /\ \E user_id \in 0..Len(dbRows), payload \in UserUpdate :
        LET r == [reqs[q] EXCEPT !.op = "update", !.payload = payload,
                                 !.user_id = user_id, !.user = <<>>,
                                 !.status = 0, !.conflict = FALSE,
                                 !.wrote = FALSE]
        IN  reqs' = [reqs EXCEPT ![q] =
                IF user_id \notin DOMAIN dbRows
                THEN [r EXCEPT !.pc = "idle", !.served = @ + 1, !.status = 404]
                ELSE [r EXCEPT !.user = dbRows[user_id],
                               !.pc = IF checks_email(payload, dbRows[user_id])
                                      THEN "update_check"
                                      ELSE "update_commit"]]
    /\ UNCHANGED <<kcvars, dbMode, dbRows, email_unique>>

\* update_user's second query: a user with the new email.
UpdateCheck(q) ==
    /\ reqs[q].pc = "update_check"
    /\ LET st == existing_status(reqs[q].payload.email)
       IN  reqs' = [reqs EXCEPT ![q] =
               IF st # 0
               THEN Answer(q, st, TRUE, FALSE)
               ELSE [@ EXCEPT !.pc = "update_commit"]]
    /\ UNCHANGED <<kcvars, dbMode, dbRows, email_unique>>

\* The fields setattr changes on the loaded object: the session writes these.
changed(payload, user) ==
    LET ks == {k \in DOMAIN payload : payload[k] # user[k]}
    IN  [k \in ks |-> payload[k]]

\* for field, value in update_data.items(): setattr(user, field, value);
\* await session.commit().  Nothing is committed when no field is set.
UpdateCommit(q) ==
    /\ reqs[q].pc = "update_commit"
    /\ LET id == reqs[q].user_id
           ch == changed(reqs[q].payload, reqs[q].user)
           dup == /\ "email" \in DOMAIN ch
                  /\ by_email(ch.email) \ {id} # {}
       IN  IF reqs[q].payload = <<>>
           THEN /\ reqs' = [reqs EXCEPT ![q] = Answer(q, 200, FALSE, FALSE)]
                /\ UNCHANGED dbRows
           ELSE IF email_unique /\ dup
           THEN /\ reqs' = [reqs EXCEPT ![q] = Answer(q, 500, TRUE, FALSE)]
                /\ UNCHANGED dbRows
           ELSE /\ dbRows' = [dbRows EXCEPT ![id] = DictMerge(@, ch)]
                /\ reqs' = [reqs EXCEPT ![q] = Answer(q, 200, dup, TRUE)]
    /\ UNCHANGED <<kcvars, dbMode, email_unique>>

Handle(q) ==
    \/ CreateSelect(q)
    \/ CreateCommit(q)
    \/ UpdateSelect(q)
    \/ UpdateCheck(q)
    \/ UpdateCommit(q)

(***************************************************************************)
(* The specification: one runner, its runs one after the other.            *)
(***************************************************************************)
Init ==
    /\ realm = FALSE
    /\ clients = <<>>
    /\ roles = <<>>
    /\ kcusers = <<>>
    /\ mappings = {}
    /\ dbMode \in {"down", "error", "up"}
    /\ dbRows \in Tables
    /\ dbMode # "up" => dbRows = <<>>
    /\ rs = [p \in Runners |-> IdleRun]
    /\ runs = 0
    /\ nfaults = 0
    /\ edited = FALSE
    /\ snap = None
    /\ email_unique = FALSE
    /\ reqs = [q \in Handlers |-> IdleReq]

Step(p) ==
    \/ StartRun(p)
    \/ TokenPost(p)
    \/ RealmPost(p)
    \/ ClientsGet(p)
    \/ ClientPut(p)
    \/ ClientPost(p)
    \/ RolePost(p)
    \/ GetUsers(p)
    \/ DbQuery(p)
    \/ DbRelease(p)
    \/ SelectUsers(p)
    \/ UserGet(p)
    \/ UserPost(p)
    \/ UserRefetch(p)
    \/ RoleGet(p)
    \/ MappingsGet(p)
    \/ MappingsPost(p)
    \/ Discovery(p)
    \/ Main(p)

Next == Step(1) \/ OperatorEdit

Spec == Init /\ [][Next]_vars

(***************************************************************************)
(* The run under interrupts: at any point of a run a KeyboardInterrupt or   *)
(* an exception no stage catches reaches main, which returns 1.  A run that *)
(* has started goes on: every call returns or fails within its timeout.     *)
(***************************************************************************)
\* main's except branches with the exception left uncaught: the interpreter's
\* exit status, 128 plus the number of SIGINT.
interrupted_exit_code_uncaught == 128 + 2

\* except KeyboardInterrupt: return 1 / except Exception: return 1
interrupted_exit_code == 1

Interrupt(p) ==
    /\ rs[p].pc \notin {"idle", "done"}
    /\ rs' = [rs EXCEPT ![p] = [@ EXCEPT !.pc = "done",
                                         !.session = FALSE,
                                         !.interrupted = TRUE,
                                         !.exit_code = interrupted_exit_code]]
    /\ snap' = IF rs[p].run = 1 THEN Provider ELSE snap
    /\ UNCHANGED <<pvars, dbvars, runs, nfaults, edited>>

\* A step of a run that has started.
Proceed(p) == rs[p].pc \notin {"idle", "done"} /\ Step(p)

NextLive == Step(1) \/ Interrupt(1)

SpecLive == Init /\ [][NextLive]_vars /\ WF_vars(Proceed(1))

(***************************************************************************)
(* Two processes run the script at the same time against one provider: the *)
(* calls of the two runs interleave.  No API failure is injected; the      *)
(* provider answers as its state dictates, 409 included.  The database     *)
(* holds one active user.                                                  *)
(***************************************************************************)
InitConc ==
    /\ realm = FALSE
    /\ clients = <<>>
    /\ roles = <<>>
    /\ kcusers = <<>>
    /\ mappings = {}
    /\ dbMode = "up"
    /\ dbRows \in {t \in Tables : Len(t) = 1 /\ t[1].is_active}
    /\ rs = [p \in Runners |-> IdleRun]
    /\ runs = 0
    /\ nfaults = MaxFaults
    /\ edited = FALSE
    /\ snap = None
    /\ email_unique = FALSE
    /\ reqs = [q \in Handlers |-> IdleReq]

NextConc == \E p \in Runners : Step(p)

SpecConc == InitConc /\ [][NextConc]_vars

(***************************************************************************)
(* The users API serving requests: the table starts with no two users       *)
(* sharing an email, and the two handlers' steps interleave.                *)
(***************************************************************************)
InitApi ==
    /\ realm = FALSE
    /\ clients = <<>>
    /\ roles = <<>>
    /\ kcusers = <<>>
    /\ mappings = {}
    /\ dbMode = "up"
    /\ dbRows \in {t \in Tables :
                     \A i, j \in DOMAIN t : i # j => t[i].email # t[j].email}
    /\ rs = [p \in Runners |-> IdleRun]
    /\ runs = 0
    /\ nfaults = 0
    /\ edited = FALSE
    /\ snap = None
    /\ email_unique \in BOOLEAN
    /\ reqs = [q \in Handlers |-> IdleReq]

NextApi == \E q \in Handlers : Handle(q)

SpecApi == InitApi /\ [][NextApi]_vars

(***************************************************************************)
(* Properties.                                                             *)
(***************************************************************************)
Rank(e) == StageRank(StageOf(e.call))

\* The run is over: main has returned.
Done(r) == r.pc = "done"

\* The stage `stage` has returned True.
Succeeded(r, stage) ==
    \E k \in 1..Len(r.ret) : r.ret[k].stage = stage /\ r.ret[k].ok

\* The answer to a call of a structural stage that makes its stage fail.
Unexpected(e) ==
    \/ e.call \in {"realm_post", "role_post"} /\ e.status \notin {201, 409}
    \/ e.call = "clients_get" /\ e.status # 200
    \/ e.call = "client_put" /\ e.status # 204
    \/ e.call = "client_post" /\ e.status # 201

\* C1: in every run the stages execute in the order token, realm, client,
\* roles, users, probe: the calls of the log never go back to an earlier
\* stage, a call of a stage is in the log only when every stage before it has
\* returned True, in order, and no stage returns (is entered) twice.
C1_StageOrder ==
    \A p \in Runners :
        LET r == rs[p]
        IN  /\ \A i \in 1..(Len(r.log) - 1) : Rank(r.log[i]) <= Rank(r.log[i + 1])
            /\ \A i \in 1..Len(r.log) :
                 \A k \in 1..(Rank(r.log[i]) - 1) :
                    /\ k <= Len(r.ret)
                    /\ r.ret[k] = [stage |-> stage_order[k], ok |-> TRUE]
            /\ \A k \in 1..Len(r.ret) :
                 /\ k <= Len(stage_order)
                 /\ r.ret[k].stage = stage_order[k]

\* A run that went through all six stages.
C1_Witness ==
    /\ Done(rs[1])
    /\ rs[1].exit_code = 0
    /\ Len(rs[1].ret) = 6
    /\ \E i \in 1..Len(rs[1].log) : rs[1].log[i].call = "discovery"

\* C2: when the token endpoint answers anything but success, or the call
\* fails in the network, the token call stays the run's only call, no token
\* is stored, run_setup returns False and main returns 1.
C2_TokenFailureAborts ==
    \A p \in Runners :
        LET r == rs[p]
        IN  (Len(r.log) > 0 /\ r.log[1].call = "token" /\ r.log[1].status # 200)
            => /\ Len(r.log) = 1
               /\ r.access_token = ""
               /\ r.pc \in {"return", "done"}
               /\ ~r.success
               /\ Done(r) => r.exit_code = 1

\* A finished run whose token call was refused.
C2_Witness ==
    /\ Done(rs[1])
    /\ rs[1].log[1].call = "token"
    /\ rs[1].log[1].status = 500
    /\ rs[1].exit_code = 1

\* C3: when a call of the realm, client or role stage gets an unexpected
\* status or fails in the network, no call of a later stage follows it,
\* run_setup returns False and main returns 1.
C3_StructuralFailureAborts ==
    \A p \in Runners :
        LET r == rs[p]
        IN  \A i \in 1..Len(r.log) :
                Unexpected(r.log[i])
                => /\ \A j \in 1..Len(r.log) : j > i => Rank(r.log[j]) = Rank(r.log[i])
                   /\ r.pc \in {"return", "done"}
                   /\ ~r.success
                   /\ Done(r) => r.exit_code = 1

\* A finished run whose second role could not be created.
C3_Witness ==
    /\ Done(rs[1])
    /\ rs[1].exit_code = 1
    /\ \E i \in 1..Len(rs[1].log) :
          /\ rs[1].log[i].call = "role_post"
          /\ rs[1].log[i].name = "admin"
          /\ rs[1].log[i].status \notin {201, 409}
          /\ i = Len(rs[1].log)

\* The five mandatory stages have all returned True.
MandatoryOk(r) ==
    \A s \in {"token", "realm", "client", "roles", "users"} : Succeeded(r, s)

C5_Idempotent ==
    \A p \in Runners :
        (Done(rs[p]) /\ rs[p].run >= 2 /\ nfaults = 0 /\ ~edited) => Provider = snap

\* The second failure-free run has ended on the populated provider.
C5_Witness ==
    /\ Done(rs[1])
    /\ rs[1].run = 2
    /\ rs[1].exit_code = 0
    /\ nfaults = 0
    /\ ~edited
    /\ realm
    /\ Len(kcusers) >= 3
    /\ mappings # {}

\* The run started on a provider whose structure matched the desired state.
StartMatched(r) == r.start # None /\ StructureMatches(r.start)

\* C6 as stated: on a provider that already matches, the realm, client and
\* role stages get only no-op answers (409, or the 200 of the client list),
\* no write is issued, and main returns 0.
C6_OnlyNoOps ==
    \A p \in Runners :
        LET r == rs[p]
        IN  (Done(r) /\ StartMatched(r) /\ r.faults = 0)
            => /\ \A i \in 1..Len(r.log) :
                    Rank(r.log[i]) \in {2, 3, 4}
                    => \/ r.log[i].call \in {"realm_post", "role_post"}
                          /\ r.log[i].status = 409
                       \/ r.log[i].call = "clients_get" /\ r.log[i].status = 200
               /\ r.exit_code = 0

\* C6 amended: on a provider that already matches, the realm and role stages
\* get only 409, the client stage lists the clients and issues one PUT that is
\* answered 204 and leaves realm, clients and roles as stored, and main
\* returns 0.
C6_NoOpsAndOnePut ==
    \A p \in Runners :
        LET r == rs[p]
        IN  (r.pc \in {"return", "done"} /\ StartMatched(r) /\ r.faults = 0)
            => /\ \A i \in 1..Len(r.log) :
                    /\ r.log[i].call \in {"realm_post", "role_post"}
                       => r.log[i].status = 409
                    /\ r.log[i].call = "clients_get" => r.log[i].status = 200
                    /\ r.log[i].call = "client_put" => r.log[i].status = 204
                    /\ r.log[i].call # "client_post"
               /\ Cardinality({i \in 1..Len(r.log) : r.log[i].call = "client_put"}) = 1
               /\ r.pc = "return"
                  => /\ r.success
                     /\ realm = r.start.realm
                     /\ clients = r.start.clients
                     /\ roles = r.start.roles
               /\ Done(r) => r.exit_code = 0

\* The second run on the provider the first run set up has ended with code 0.
C6_Witness ==
    /\ Done(rs[1])
    /\ rs[1].run = 2
    /\ StartMatched(rs[1])
    /\ rs[1].faults = 0
    /\ rs[1].exit_code = 0
    /\ \E i \in 1..Len(rs[1].log) :
          rs[1].log[i].call = "client_put" /\ rs[1].log[i].status = 204

\* C7: after a successful PUT of the client stage, every top-level field the
\* existing client had and the desired spec does not name is still on the
\* client with the value it had when the run started.
C7_UnmanagedFieldsKept ==
    \A p \in Runners :
        LET r == rs[p]
        IN  (/\ r.pc \notin {"idle", "done"}
             /\ \E i \in 1..Len(r.log) :
                   r.log[i].call = "client_put" /\ r.log[i].status = 204)
            => \A i \in 1..Len(r.start.clients) :
                  r.start.clients[i].clientId = client_id
                  => \A k \in (DOMAIN r.start.clients[i]) \ (DOMAIN client_data) :
                        \E j \in OurClients :
                           /\ k \in DOMAIN clients[j]
                           /\ clients[j][k] = r.start.clients[i][k]

\* A run has updated a client that carried the operator's baseUrl.
C7_Witness ==
    /\ rs[1].pc = "return"
    /\ \E i \in 1..Len(rs[1].log) :
          rs[1].log[i].call = "client_put" /\ rs[1].log[i].status = 204
    /\ \E i \in 1..Len(rs[1].start.clients) :
          "baseUrl" \in DOMAIN rs[1].start.clients[i]
    /\ \E j \in OurClients :
          /\ "baseUrl" \in DOMAIN clients[j]
          /\ clients[j].baseUrl = "http://localhost:3000"
          /\ clients[j].redirectUris = redirect_uris

\* C8 as stated: a pair (user, role) that was mapped on the provider when a
\* run started gets no role-assignment POST in that run.
C8_NoRepeatedAssignment ==
    \A p \in Runners :
        LET r == rs[p]
        IN  \A i \in 1..Len(r.log) :
                r.log[i].call = "mappings_post"
                => <<r.log[i].uid, r.log[i].name>> \notin r.start.mappings

\* The provider with nothing in it.
EmptyProvider ==
    [realm |-> FALSE, clients |-> <<>>, roles |-> <<>>, users |-> <<>>, mappings |-> {}]

\* A finished run that started on the empty provider and saw no API failure.
CleanFirstRun(r) == Done(r) /\ r.start = EmptyProvider /\ r.faults = 0

\* The realm has a user with u's username and email holding all of u's roles.
Provisioned(u) ==
    \E j \in 1..Len(kcusers) :
        /\ kcusers[j].username = u.username
        /\ kcusers[j].email = u.email
        /\ \A n \in 1..Len(u.roles) : <<j, u.roles[n]>> \in mappings

\* C9 as stated: when the database yields N > 0 records, a failure-free run on
\* the empty realm leaves exactly N + 1 users: one per record, holding role
\* user, and the admin identity.
C9_DbUsersPlusAdmin ==
    \A p \in Runners :
        LET recs == query_users(dbRows, 1)
        IN  (CleanFirstRun(rs[p]) /\ dbMode = "up" /\ Len(recs) > 0)
            => /\ Len(kcusers) = Len(recs) + 1
               /\ \A i \in 1..Len(recs) : Provisioned(recs[i])
               /\ Provisioned(admin_user)

\* The database yields no record: no engine, a failing query, or no active row.
DbYieldsNothing ==
    dbMode # "up" \/ \A i \in 1..Len(dbRows) : ~dbRows[i].is_active

\* C10: when the database yields no record, a failure-free run on the empty
\* realm leaves exactly three users: testuser and user1 with role user, and
\* the admin identity.
C10_FallbackUsersPlusAdmin ==
    \A p \in Runners :
        (CleanFirstRun(rs[p]) /\ DbYieldsNothing)
        => /\ Len(kcusers) = 3
           /\ {kcusers[j].username : j \in 1..Len(kcusers)} = {"testuser", "user1", "admin"}
           /\ \A i \in 1..Len(get_fallback_users) : Provisioned(get_fallback_users[i])
           /\ Provisioned(admin_user)

\* A failure-free first run with a database whose query raises has ended.
C10_Witness ==
    /\ CleanFirstRun(rs[1])
    /\ dbMode = "error"
    /\ rs[1].exit_code = 0
    /\ Len(kcusers) = 3

\* The stage `stage` has returned, with either result.
Returned(r, stage) == \E k \in 1..Len(r.ret) : r.ret[k].stage = stage

\* The positions in the log of the lookups that open create_keycloak_user.
UserGets(r) == {i \in 1..Len(r.log) : r.log[i].call = "user_get"}

\* The position of the last lookup, 0 when there is none.
LastUserGet(r) ==
    IF UserGets(r) = {} THEN 0
    ELSE CHOOSE i \in UserGets(r) : \A j \in UserGets(r) : j <= i

\* An API failure: a 500 answer or a network error.
Failed(e) == e.status \in {0, 500}

\* C11: in every run whose user stage has returned, create_keycloak_user has
\* been called once for each desired user, in list order, and then once for
\* the admin identity, whatever the desired users' results were: the last
\* lookup of the run is the lookup of username admin, it comes after every
\* desired user's result, and when no call fails from that lookup on, the
\* roles user and admin are both fetched for the admin, in that order.
C11_AdminAlwaysLast ==
    \A p \in Runners :
        LET r == rs[p]
            n == Len(r.users)
            last == LastUserGet(r)
        IN  Returned(r, "users")
            => /\ Len(r.results) = n + 1
               /\ \A i \in 1..n : r.results[i].username = r.users[i].username
               /\ r.results[n + 1].username = admin_user.username
               /\ Cardinality(UserGets(r)) = n + 1
               /\ r.log[last].name = "admin"
               /\ \A j \in 1..Len(r.log) :
                     (j > last /\ r.log[j].call = "role_get")
                     => r.log[j].name \in {"user", "admin"}
               /\ (\A j \in last..Len(r.log) : ~Failed(r.log[j]))
                  => \E a, b \in last..Len(r.log) :
                        /\ a < b
                        /\ r.log[a].call = "role_get" /\ r.log[a].name = "user"
                        /\ r.log[b].call = "role_get" /\ r.log[b].name = "admin"

\* The only desired user failed, and the admin was created after it with both
\* of its roles assigned.
C11_Witness ==
    /\ Done(rs[1])
    /\ rs[1].source = "db"
    /\ Len(rs[1].users) = 1
    /\ Len(rs[1].results) = 2
    /\ ~rs[1].results[1].ok
    /\ rs[1].results[2] = [username |-> "admin", ok |-> TRUE]
    /\ \E i \in 1..Len(rs[1].log) :
          /\ rs[1].log[i].call = "mappings_post"
          /\ rs[1].log[i].name = "admin"
          /\ rs[1].log[i].status = 204

\* The steps of the user stage.
UserStagePcs ==
    {"get_users", "db_query", "db_release", "select_users", "user_get",
     "user_post", "user_refetch", "role_get", "mappings_get", "mappings_post"}

\* C12: a user's failure never ends the batch: after a failed result the run
\* is still in the user stage or the stage has returned True; the user stage
\* never returns False; when it has returned every user, the admin included,
\* has a result; and its return is followed by the discovery call.
C12_PerUserErrorsNonFatal ==
    \A p \in Runners :
        LET r == rs[p]
        IN  /\ \A k \in 1..Len(r.ret) : r.ret[k].stage = "users" => r.ret[k].ok
            /\ \A i \in 1..Len(r.results) :
                  ~r.results[i].ok
                  => \/ r.pc \in UserStagePcs /\ Len(r.results) <= Len(r.users)
                     \/ Succeeded(r, "users")
            /\ Returned(r, "users")
               => /\ Len(r.results) = Len(r.users) + 1
                  /\ r.pc \in {"discovery", "return", "done"}
                  /\ r.pc # "discovery"
                     => r.log[Len(r.log)].call = "discovery"

\* The first user's lookup failed in the network; the others were processed,
\* the probe answered 200 and main returned 0.
C12_Witness ==
    /\ Done(rs[1])
    /\ Len(rs[1].results) = Len(rs[1].users) + 1
    /\ Len(rs[1].users) = 2
    /\ ~rs[1].results[1].ok
    /\ rs[1].results[2].ok
    /\ rs[1].results[3].ok
    /\ \E i \in 1..Len(rs[1].log) :
          rs[1].log[i].call = "user_get" /\ rs[1].log[i].status = 0
    /\ rs[1].log[Len(rs[1].log)].call = "discovery"
    /\ rs[1].log[Len(rs[1].log)].status = 200
    /\ rs[1].exit_code = 0

\* The roles of the realm named role_name.
RolesNamed(role_name) == {i \in 1..Len(roles) : roles[i].name = role_name}

RECURSIVE CallsOf(_, _, _)
CallsOf(r, call, i) ==
    IF i > Len(r.log) THEN <<>>
    ELSE (IF r.log[i].call = call
          THEN <<[name |-> r.log[i].name, status |-> r.log[i].status]>>
          ELSE <<>>) \o CallsOf(r, call, i + 1)

\* C14: from the empty provider, with the database unreachable (no engine, or
\* a query that raises) and no API failure, one run
\* creates the realm (201), the client (201) with the two configured redirect
\* URIs, the roles user and admin (201 each), the users testuser, user1 and
\* admin (201 each) with role user mapped to all three and role admin to the
\* admin, gets 200 from the discovery probe, and main returns 0.  The provider
\* is looked at when run_setup returns.
C14_EndToEnd ==
    \A p \in Runners :
        LET r == rs[p]
        IN  (/\ r.pc \in {"return", "done"}
             /\ r.start = EmptyProvider
             /\ r.faults = 0
             /\ dbMode \in {"down", "error"})
            => /\ CallsOf(r, "realm_post", 1) = <<[name |-> app_realm, status |-> 201]>>
               /\ CallsOf(r, "client_post", 1) = <<[name |-> client_id, status |-> 201]>>
               /\ CallsOf(r, "client_put", 1) = <<>>
               /\ CallsOf(r, "role_post", 1) = <<[name |-> "user", status |-> 201],
                                                 [name |-> "admin", status |-> 201]>>
               /\ CallsOf(r, "user_post", 1) = <<[name |-> "testuser", status |-> 201],
                                                 [name |-> "user1", status |-> 201],
                                                 [name |-> "admin", status |-> 201]>>
               /\ CallsOf(r, "discovery", 1) = <<[name |-> app_realm, status |-> 200]>>
               /\ r.success
               /\ Done(r) => r.exit_code = 0
               /\ r.pc = "return"
                  => /\ realm
                     /\ Cardinality(OurClients) = 1
                     /\ \A i \in OurClients :
                           clients[i].redirectUris =
                               <<"http://localhost:3000/*", "http://localhost:8080/*">>
                     /\ Len(roles) = 2
                     /\ Len(kcusers) = 3
                     /\ mappings = {<<1, "user">>, <<2, "user">>, <<3, "user">>,
                                    <<3, "admin">>}

\* A failure-free run without a database has ended on a provider it found empty.
C14_Witness ==
    /\ CleanFirstRun(rs[1])
    /\ dbMode = "down"
    /\ rs[1].source = "fallback"
    /\ rs[1].exit_code = 0
    /\ Len(clients) = 2

\* The HTTP method of each call the script issues.
Method(call) ==
    CASE call \in {"token", "realm_post", "client_post", "role_post", "user_post",
                   "mappings_post"} -> "POST"
      [] call = "client_put" -> "PUT"
      [] call \in {"clients_get", "user_get", "user_refetch", "role_get",
                   "mappings_get", "discovery"} -> "GET"

\* The resource the call e created, if it created one, is on the provider.
StillPresent(e) ==
    /\ (e.call = "realm_post" /\ e.status = 201) => realm
    /\ (e.call = "client_post" /\ e.status = 201) => OurClients # {}
    /\ (e.call = "role_post" /\ e.status = 201) => RoleExists(e.name)
    /\ (e.call = "user_post" /\ e.status = 201)
       => e.uid \in 1..Len(kcusers) /\ kcusers[e.uid].username = e.name
    /\ (e.call = "mappings_post" /\ e.status = 204) => <<e.uid, e.name>> \in mappings

\* C15: no run issues a DELETE, and at every point of a run, its end after
\* success or after an abort included, every resource one of its calls created
\* and every resource the run found at its start is on the provider.
C15_NoRollback ==
    \A p \in Runners :
        LET r == rs[p]
        IN  /\ \A i \in 1..Len(r.log) :
                  /\ Method(r.log[i].call) # "DELETE"
                  /\ StillPresent(r.log[i])
            /\ r.start # None
               => /\ r.start.realm => realm
                  /\ Len(r.start.clients) <= Len(clients)
                  /\ \A i \in 1..Len(r.start.roles) : roles[i] = r.start.roles[i]
                  /\ \A i \in 1..Len(r.start.users) : kcusers[i] = r.start.users[i]
                  /\ r.start.mappings \subseteq mappings

\* A run from the empty provider aborted at its second role, with exit code 1;
\* the realm, the client and the first role it created are there.
C15_Witness ==
    /\ Done(rs[1])
    /\ rs[1].exit_code = 1
    /\ rs[1].start = EmptyProvider
    /\ rs[1].log[Len(rs[1].log)].call = "role_post"
    /\ Failed(rs[1].log[Len(rs[1].log)])
    /\ realm
    /\ OurClients # {}
    /\ RoleExists("user")
    /\ ~RoleExists("admin")

\* The calls to the admin API: all but the token call and the public probe.
AdminCall(e) == e.call \notin {"token", "discovery"}

\* C16: in every run the token endpoint is called at most once; access_token
\* is written only by that call, once, from None, so never after the realm
\* stage has started; and every admin API call of the run carried the value
\* access_token holds.
C16_TokenOnce ==
    /\ [](\A p \in Runners :
            LET r == rs[p]
            IN  /\ Cardinality({i \in 1..Len(r.log) : r.log[i].call = "token"}) <= 1
                /\ r.access_token # ""
                   => r.log[1].call = "token" /\ r.log[1].status = 200
                /\ \A i \in 1..Len(r.log) :
                      AdminCall(r.log[i])
                      => r.log[i].auth # "" /\ r.log[i].auth = r.access_token)
    /\ [][\A p \in Runners :
            (rs'[p].run = rs[p].run /\ rs'[p].access_token # rs[p].access_token)
            => /\ rs[p].pc = "token"
               /\ rs[p].access_token = ""
               /\ rs[p].log = <<>>]_vars

\* A run has gone through all its stages on the credential of its token call.
C16_Witness ==
    /\ Done(rs[1])
    /\ rs[1].exit_code = 0
    /\ rs[1].access_token = "tok" \o ToString(rs[1].run)
    /\ Cardinality({i \in 1..Len(rs[1].log) : AdminCall(rs[1].log[i])}) >= 20
    /\ \E i \in 1..Len(rs[1].log) :
          /\ rs[1].log[i].call = "mappings_post"
          /\ rs[1].log[i].auth = rs[1].access_token

\* How many calls of the run are among `calls`, counting those named `name`
\* alone unless name is "".
CallCount(r, calls, name) ==
    Cardinality({i \in 1..Len(r.log) :
                    /\ r.log[i].call \in calls
                    /\ name # "" => r.log[i].name = name})

\* C17: within one run the token POST, the realm POST, the client list GET,
\* the client write (create or update) and the create POST of each role name
\* are each issued at most once, whatever they were answered, and a failed
\* call of these stages is the last call of the run.
C17_NoRetry ==
    \A p \in Runners :
        LET r == rs[p]
        IN  /\ CallCount(r, {"token"}, "") <= 1
            /\ CallCount(r, {"realm_post"}, "") <= 1
            /\ CallCount(r, {"clients_get"}, "") <= 1
            /\ CallCount(r, {"client_post", "client_put"}, "") <= 1
            /\ \A n \in 1..Len(role_names) :
                  CallCount(r, {"role_post"}, role_names[n]) <= 1
            /\ \A i \in 1..Len(r.log) :
                  (Rank(r.log[i]) <= 4 /\ Failed(r.log[i])) => i = Len(r.log)

\* The client list failed; it stayed the run's last call and main returned 1.
C17_Witness ==
    /\ Done(rs[1])
    /\ rs[1].exit_code = 1
    /\ rs[1].log[Len(rs[1].log)].call = "clients_get"
    /\ Failed(rs[1].log[Len(rs[1].log)])
    /\ Len(rs[1].log) = 3

\* The positions in the log of the client stage's writes.
ClientWrites(r) ==
    {i \in 1..Len(r.log) : r.log[i].call \in {"client_post", "client_put"}}

\* The result the client stage returned.
ClientStageOk(r) == Succeeded(r, "client")

\* C18: when the client list has answered 200, existing_client is the listed
\* client with the configured clientId, None if and only if there is none;
\* the stage then issues exactly one write, a POST when existing_client is
\* None and otherwise a PUT to existing_client's id, and returns True exactly
\* when the POST answered 201 or the PUT answered 204.  When the list answered
\* anything but 200 the stage returns False with no write.  The realm never
\* holds two clients with the configured clientId.
C18_CreateOrUpdate ==
    /\ Cardinality(OurClients) <= 1
    /\ \A p \in Runners :
        LET r == rs[p]
        IN  /\ r.pc = "client_write"
               => /\ r.log[Len(r.log)].call = "clients_get"
                  /\ r.log[Len(r.log)].status = 200
                  /\ ClientWrites(r) = {}
                  /\ (r.existing_client = None) <=> (OurClients = {})
                  /\ \A i \in OurClients : r.existing_client = clients[i]
            /\ Returned(r, "client")
               => LET g == CHOOSE i \in 1..Len(r.log) : r.log[i].call = "clients_get"
                  IN  IF r.log[g].status # 200
                      THEN ClientWrites(r) = {} /\ ~ClientStageOk(r)
                      ELSE /\ ClientWrites(r) = {g + 1}
                           /\ (r.log[g + 1].call = "client_post")
                              <=> (r.existing_client = None)
                           /\ r.log[g + 1].call = "client_put"
                              => r.log[g + 1].uid = r.existing_client.id
                           /\ ClientStageOk(r)
                              <=> \/ r.log[g + 1].call = "client_post"
                                     /\ r.log[g + 1].status = 201
                                  \/ r.log[g + 1].call = "client_put"
                                     /\ r.log[g + 1].status = 204

\* A first run created the client; the second run found it in the list and
\* updated it by its id.
C18_Witness ==
    /\ rs[1].run = 2
    /\ rs[1].start.clients # <<>>
    /\ ClientStageOk(rs[1])
    /\ Cardinality(OurClients) = 1
    /\ \E i \in 1..Len(rs[1].log) :
          /\ rs[1].log[i].call = "client_put"
          /\ rs[1].log[i].status = 204
          /\ \E j \in OurClients : clients[j].id = rs[1].log[i].uid

\* The attribute keys the script manages.
ManagedAttributes == DOMAIN client_data.attributes

\* C19 as stated: after a successful PUT of the client stage, every entry of
\* the existing client's attributes map whose key the script does not manage
\* is still in the client's attributes map, with the value it had when the
\* run started.
C19_UnmanagedAttributesKept ==
    \A p \in Runners :
        LET r == rs[p]
        IN  (/\ r.pc \notin {"idle", "done"}
             /\ \E i \in 1..Len(r.log) :
                   r.log[i].call = "client_put" /\ r.log[i].status = 204)
            => \A i \in 1..Len(r.start.clients) :
                  r.start.clients[i].clientId = client_id
                  => \A k \in (DOMAIN r.start.clients[i].attributes) \ ManagedAttributes :
                        \E j \in OurClients :
                           /\ k \in DOMAIN clients[j].attributes
                           /\ clients[j].attributes[k] = r.start.clients[i].attributes[k]

\* C20: the role creates of a run are issued for the names of the list in
\* list order, user then admin, each after a 201 or 409 of the one before;
\* an answer that is neither, or a network error, is the last call of the
\* stage and of the run: the stage returns False and no create is issued for
\* a name that follows.  The stage returns True exactly when every name got a
\* 201 or a 409.
C20_RolesAbortOnFirstFailure ==
    \A p \in Runners :
        LET r == rs[p]
            posts == CallsOf(r, "role_post", 1)
        IN  /\ Len(posts) <= Len(role_names)
            /\ \A i \in 1..Len(posts) :
                  /\ posts[i].name = role_names[i]
                  /\ i < Len(posts) => posts[i].status \in {201, 409}
                  /\ posts[i].status \notin {201, 409}
                     => /\ r.log[Len(r.log)].call = "role_post"
                        /\ r.log[Len(r.log)].name = role_names[i]
                        /\ Returned(r, "roles")
                        /\ ~Succeeded(r, "roles")
                        /\ r.pc \in {"return", "done"}
            /\ Succeeded(r, "roles")
               <=> /\ Len(posts) = Len(role_names)
                   /\ \A i \in 1..Len(posts) : posts[i].status \in {201, 409}
            /\ r.pc = "role_post" => Len(posts) = r.role_i - 1

\* The create of the first role failed in the network: the run ended there,
\* without a create for admin.
C20_Witness ==
    /\ Done(rs[1])
    /\ rs[1].exit_code = 1
    /\ CallsOf(rs[1], "role_post", 1) = <<[name |-> "user", status |-> 0]>>
    /\ rs[1].log[Len(rs[1].log)].call = "role_post"
    /\ ~RoleExists("admin")

\* Which call of create_keycloak_user the log entry at position j belongs to:
\* the number of lookups up to j.
UserIndex(r, j) == Cardinality({i \in UserGets(r) : i <= j})

\* The calls of the role loop of create_keycloak_user.
RoleLoopCalls == {"role_get", "mappings_get", "mappings_post"}

\* The entry at position j ends its user's processing with result False: the
\* next call, if any, is not of the role loop, and the user's result is False.
SkipsUser(r, j) ==
    /\ j < Len(r.log) => r.log[j + 1].call \notin RoleLoopCalls
    /\ Len(r.results) >= UserIndex(r, j)
    /\ ~r.results[UserIndex(r, j)].ok

SubStepRefused(e) ==
    /\ e.call \in {"role_get", "mappings_get"}
    /\ e.status \notin {0, 200}

\* C22 as stated: when the GET of the role or the GET of the user's role
\* mappings is answered with a status other than success, no assignment POST
\* follows for that pair: the next call of the run, if any, is not a
\* role-mappings call of the same user and role.
C22_SubStepFailuresSkipped ==
    \A p \in Runners :
        LET r == rs[p]
        IN  \A j \in 1..(Len(r.log) - 1) :
                SubStepRefused(r.log[j])
                => ~(/\ r.log[j + 1].call \in {"mappings_get", "mappings_post"}
                     /\ r.log[j + 1].uid = r.log[j].uid
                     /\ r.log[j + 1].name = r.log[j].name)

\* The usernames of the lookups of the run, in order.
RECURSIVE LookupNames(_, _)
LookupNames(r, i) ==
    IF i > Len(r.log) THEN <<>>
    ELSE (IF r.log[i].call = "user_get" THEN <<r.log[i].name>> ELSE <<>>)
         \o LookupNames(r, i + 1)

\* The list has been chosen.
Selected(r) == r.source # "none"

\* C23: a run queries the database at most once and chooses its list once;
\* the list is the database's records when the query returned at least one,
\* and the static list otherwise, never a mixture; without a database or with
\* a query that raises, the list is the static list and the user stage does
\* not fail; the lookups of the stage are those of the list, in order, then
\* the admin's; and users is written by the choice alone.
C23_SingleFallbackDecision ==
    /\ [](\A p \in Runners :
            LET r == rs[p]
                names == LookupNames(r, 1)
            IN  /\ r.db_queries <= 1
                /\ r.db_queries = 1 => dbMode # "down"
                /\ ~Selected(r) => r.users = <<>> /\ names = <<>>
                /\ Selected(r)
                   => /\ r.users \in {query_users(dbRows, 1), get_fallback_users}
                      /\ r.users # <<>>
                      /\ (r.source = "db")
                         <=> (dbMode = "up" /\ query_users(dbRows, 1) # <<>>)
                      /\ r.source = "db" => r.users = query_users(dbRows, 1)
                      /\ r.source = "fallback" => r.users = get_fallback_users
                      /\ Len(names) <= Len(r.users) + 1
                      /\ \A k \in 1..Len(names) :
                            names[k] = IF k <= Len(r.users) THEN r.users[k].username
                                       ELSE admin_user.username
                /\ \A k \in 1..Len(r.ret) : r.ret[k].stage = "users" => r.ret[k].ok)
    /\ [][\A p \in Runners :
            (rs'[p].run = rs[p].run /\ rs'[p].users # rs[p].users)
            => rs[p].pc = "select_users" /\ ~Selected(rs[p])]_vars

\* The query raised; the run worked on the static list and ended with code 0.
C23_Witness ==
    /\ Done(rs[1])
    /\ dbMode = "error"
    /\ rs[1].db_queries = 1
    /\ rs[1].db_raised
    /\ rs[1].source = "fallback"
    /\ LookupNames(rs[1], 1) = <<"testuser", "user1", "admin">>
    /\ rs[1].exit_code = 0

\* The steps of get_users_from_database inside the async with block.
SessionPcs == {"db_query", "db_release"}

\* C24: a database session is open only inside get_users_from_database: it
\* is released when the function returns, after rows, after no row and after
\* a query that raised, so that no session is open when the list is chosen,
\* at any admin API call of the user stage, or when the run ends.
C24_SessionScoped ==
    \A p \in Runners :
        LET r == rs[p]
        IN  /\ r.session => r.pc \in SessionPcs
            /\ (r.session /\ r.pc = "db_release") => r.db_queries = 1
            /\ r.pc \in (UserStagePcs \ ({"get_users"} \cup SessionPcs)) => ~r.session
            /\ \A i \in 1..Len(r.log) : StageOf(r.log[i].call) = "users" => ~r.session

\* The query raised, the session was released, and the run has gone on to
\* the lookup of the first user.
C24_Witness ==
    /\ rs[1].db_raised
    /\ rs[1].db_queries = 1
    /\ ~rs[1].session
    /\ \E i \in 1..Len(rs[1].log) : rs[1].log[i].call = "user_get"

\* The run has started and main has not returned.
Running(r) == r.pc \notin {"idle", "done"}

\* C25: main returns exactly one result, 0 or 1: no exit code while the run is
\* on, then 0 or 1, 0 only when run_setup returned True, and 1 after an
\* interrupt or an uncaught error; and every run that has started ends.
C25_DefiniteResult ==
    /\ [](\A p \in Runners :
            LET r == rs[p]
            IN  /\ Running(r) => r.exit_code = -1
                /\ Done(r) => r.exit_code \in {0, 1}
                /\ (Done(r) /\ r.exit_code = 0) => r.success /\ ~r.interrupted
                /\ (Done(r) /\ r.interrupted) => r.exit_code = 1)
    /\ \A p \in Runners : Running(rs[p]) ~> Done(rs[p])

\* A run was interrupted in its user stage and main returned 1.
C25_Witness ==
    /\ Done(rs[1])
    /\ rs[1].interrupted
    /\ rs[1].exit_code = 1
    /\ Len(rs[1].log) > 0
    /\ rs[1].log[Len(rs[1].log)].call = "user_post"

\* C26 as stated: an identifier taken from the username lookup, or from the
\* re-fetch, is that of a user whose username is the one asked for, and every
\* role-assignment POST issued while a user is processed goes to an account
\* with that user's username.
C26_LookupMatchesUsername ==
    \A p \in Runners :
        LET r == rs[p]
        IN  /\ \A j \in 1..Len(r.log) :
                  (r.log[j].call \in {"user_get", "user_refetch"} /\ r.log[j].uid # 0)
                  => kcusers[r.log[j].uid].username = r.log[j].name
            /\ \A j \in 1..Len(r.log) :
                  r.log[j].call = "mappings_post"
                  => /\ r.log[j].uid \in 1..Len(kcusers)
                     /\ kcusers[r.log[j].uid].username =
                           r.log[LastUserGet([r EXCEPT !.log = SubSeq(r.log, 1, j)])].name

\* The user the n-th call of create_keycloak_user of the run was made for.
UserAt(r, n) == IF n <= Len(r.users) THEN r.users[n] ELSE admin_user

\* The realm has a user named as u with every role of u mapped to it.
HasAccountWithRoles(u) ==
    \E j \in 1..Len(kcusers) :
        /\ kcusers[j].username = u.username
        /\ \A n \in 1..Len(u.roles) : <<j, u.roles[n]>> \in mappings

\* C27 as stated: every user for which create_keycloak_user returned True has
\* an account in the realm under its username, with every role of its role
\* set mapped to it.
C27_SuccessMeansProvisioned ==
    \A p \in Runners :
        LET r == rs[p]
        IN  \A n \in 1..Len(r.results) :
                r.results[n].ok => HasAccountWithRoles(UserAt(r, n))

\* Both processes have run the script once, on the provider that was empty
\* when the first of them started, and both have ended.
BothDone ==
    /\ \A p \in Runners : Done(rs[p]) /\ rs[p].run \in {1, 2}
    /\ rs[1].run # rs[2].run
    /\ \E p \in Runners : rs[p].start = EmptyProvider

\* The provider holds what a single run leaves: the realm, one client with
\* the configured clientId, one role per name, one user per username.
SingleRunResourceSet ==
    /\ realm
    /\ Cardinality(OurClients) = 1
    /\ \A n \in 1..Len(role_names) : Cardinality(RolesNamed(role_names[n])) = 1
    /\ \A i, j \in 1..Len(kcusers) :
          kcusers[i].username = kcusers[j].username => i = j

\* C28 as stated: when two runs interleave on an empty provider with no API
\* failure but the provider's own 409 answers, both end with exit code 0 and
\* the provider holds the resource set of a single run.
C28_InterleavedRunsSucceed ==
    BothDone => /\ \A p \in Runners : rs[p].exit_code = 0
                /\ SingleRunResourceSet

\* No two stored users have the same email.
NoDuplicateEmails ==
    \A i, j \in DOMAIN dbRows : i # j => dbRows[i].email # dbRows[j].email

\* C29: after any interleaving of create_user and update_user requests no two
\* stored users have the same email, and a request whose email was another
\* user's when it was answered got status 400 and changed nothing.
C29_EmailUnique ==
    /\ NoDuplicateEmails
    /\ \A q \in Handlers :
        (reqs[q].pc = "idle" /\ reqs[q].conflict) =>
            (reqs[q].status = 400 /\ ~reqs[q].wrote)

====
